---- MODULE Spec2Model ----
(***************************************************************************)
(* The blackjack engine of src/blackjack.py as a state machine.            *)
(*                                                                         *)
(* State: the keys of st.session_state that the engine reads and writes    *)
(* (init_state, lines 105-148).  Presentation-only keys (flash, chip,      *)
(* last_outcomes, first_welcome_shown) and the time / card-string columns  *)
(* of a history record are left out: no engine decision reads them.        *)
(*                                                                         *)
(* Two specifications share the engine operators:                          *)
(*   Spec        the program as the Streamlit script drives it: an engine  *)
(*               function runs only when its button is rendered and        *)
(*               enabled (lines 756-956);                                  *)
(*   EngineSpec  the engine functions called directly, in any state in     *)
(*               which a round object exists (a stale or hostile caller,   *)
(*               spec section 7).                                          *)
(*                                                                         *)
(* Four small specifications apply single parts of the engine to inputs    *)
(* the two above do not reach: HandSpec (hand_value over all ranks),       *)
(* ShoeSpec (a shoe dealt through several rebuilds), SideBetSpec (the side *)
(* bets over every kind of initial deal) and SplitSpec (a round of pairs   *)
(* split up to the limit).                                                 *)
(*                                                                         *)
(* random.shuffle is resolved lazily: the shoe is the multiset of cards    *)
(* not yet dealt and deal() chooses which of them is on top.  The          *)
(* shuffles explored are those described by Stacks (variable stack), and   *)
(* at most MaxDeals cards are dealt from one shoe.                         *)
(***************************************************************************)
EXTENDS Integers, Sequences, FiniteSets, Bags, TLC

\* ------------------------------------------------------------ bounds
\* cards dealt from one shoe before the model stops dealing
MaxDeals == 7
\* total cash-in (cents) up to which "Add funds" is explored
MaxCashIn == 150
\* longest card sequence hand_value is applied to in HandSpec
MaxHandLen == 4
\* ShoeSpec builds shoes of 1..MaxDecks decks
MaxDecks == 2
\* cards dealt in SplitSpec: four to start, two per split up to a fifth hand
MaxSplitDeals == 12
MaxRoundDeals == 24

\* ------------------------------------------------------------ cards
\* RANKS, line 20
RANKS == <<"A","2","3","4","5","6","7","8","9","10","J","Q","K">>
\* SUITS, line 21 (S spades, H hearts, D diamonds, C clubs)
SUITS == <<"S","H","D","C">>
\* RED, line 22
RED == {"H","D"}

RankSet == {RANKS[i] : i \in 1..Len(RANKS)}
SuitSet == {SUITS[i] : i \in 1..Len(SUITS)}
\* one deck: every rank x suit combination (line 84)
Deck == RankSet \X SuitSet

\* int(rank) for the numeric ranks
RankInt(r) == CHOOSE n \in 2..10 : RANKS[n] = r

\* card_value, lines 25-31
card_value(rank) ==
    IF rank \in {"10","J","Q","K"} THEN 10
    ELSE IF rank = "A" THEN 11
    ELSE RankInt(rank)

RECURSIVE SumValues(_)
SumValues(cards) ==
    IF cards = <<>> THEN 0
    ELSE card_value(Head(cards)[1]) + SumValues(Tail(cards))

RECURSIVE CountAces(_)
CountAces(cards) ==
    IF cards = <<>> THEN 0
    ELSE (IF Head(cards)[1] = "A" THEN 1 ELSE 0) + CountAces(Tail(cards))

\* hand_value demoting one ace at most
Demote_one_ace(total, aces) ==
    IF total > 21 /\ aces > 0 THEN total - 10 ELSE total

\* the while loop of hand_value, lines 41-43
RECURSIVE Demote(_, _)
Demote(total, aces) ==
    IF total > 21 /\ aces > 0 THEN Demote(total - 10, aces - 1) ELSE total

\* hand_value, lines 33-44
hand_value(cards) == Demote(SumValues(cards), CountAces(cards))

\* is_blackjack, lines 75-77
is_blackjack(cards) == Len(cards) = 2 /\ hand_value(cards) = 21

\* a natural paid 1:1 instead of 3:2
BlackjackPay_one_to_one(bet) == bet * 2

\* int(round(bet * 2.5)), lines 521 and 577: Python 3 rounds a half to even
BlackjackPay(bet) ==
    LET n == 5 * bet
        f == n \div 2
    IN  IF n % 2 = 0 THEN f
        ELSE IF f % 2 = 0 THEN f ELSE f + 1

\* ------------------------------------------------------------ side bets
\* PP_PAYOUTS, line 186
PP_PAYOUTS == [perfect |-> 25, colored |-> 12, mixed |-> 6]
\* T213_PAYOUTS, line 187
T213_PAYOUTS == [straight_flush |-> 40, three_kind |-> 30, straight |-> 10, flush |-> 5]
\* RANK_ORDER, line 23
RANK_ORDER(r) == IF r = "A" THEN 14 ELSE CHOOSE n \in 2..13 : RANKS[n] = r

\* None, as pp_kind and eval_21p3 return it
NONE == "None"
\* bankroll = None (line 108): a value no amount of cents takes
NoBankroll == -1

\* pp_kind taking cards of equal value for a pair
pp_kind_by_value(c1, c2) ==
    IF card_value(c1[1]) # card_value(c2[1]) THEN NONE
    ELSE IF c1[2] = c2[2] THEN "perfect"
    ELSE IF (c1[2] \in RED) = (c2[2] \in RED) THEN "colored"
    ELSE "mixed"

\* pp_kind, lines 189-200
pp_kind(c1, c2) ==
    IF c1[1] # c2[1] THEN NONE
    ELSE IF c1[2] = c2[2] THEN "perfect"
    ELSE IF (c1[2] \in RED) = (c2[2] \in RED) THEN "colored"
    ELSE "mixed"

\* is_flush, line 202
is_flush(cards) == Cardinality({cards[i][2] : i \in 1..Len(cards)}) = 1
\* is_trips, line 203
is_trips(cards) == Cardinality({cards[i][1] : i \in 1..Len(cards)}) = 1

\* sorted() of three numbers
Sorted3(v) ==
    LET lo == CHOOSE x \in {v[1],v[2],v[3]} : \A y \in {v[1],v[2],v[3]} : x <= y
        hi == CHOOSE x \in {v[1],v[2],v[3]} : \A y \in {v[1],v[2],v[3]} : x >= y
    IN  <<lo, v[1] + v[2] + v[3] - lo - hi, hi>>
\* consec, line 207
consec(a) == a[1] + 1 = a[2] /\ a[2] + 1 = a[3]

\* is_straight3 with the Ace high only
is_straight3_ace_high_only(cards) ==
    consec(Sorted3([i \in 1..3 |-> RANK_ORDER(cards[i][1])]))

\* is_straight3, lines 204-212
is_straight3(cards) ==
    LET vals == Sorted3([i \in 1..3 |-> RANK_ORDER(cards[i][1])])
        vals_low == Sorted3([i \in 1..3 |-> IF vals[i] = 14 THEN 1 ELSE vals[i]])
    IN  consec(vals) \/ consec(vals_low)

\* eval_21p3, lines 214-221
eval_21p3(p_cards, dealer_up) ==
    LET trio == <<p_cards[1], p_cards[2], dealer_up>>
    IN  IF is_flush(trio) /\ is_straight3(trio) THEN "straight_flush"
        ELSE IF is_trips(trio) THEN "three_kind"
        ELSE IF is_straight3(trio) THEN "straight"
        ELSE IF is_flush(trio) THEN "flush"
        ELSE NONE

\* ------------------------------------------------------------ state
VARIABLES
    shoe,               \* Shoe: [decks, cards], cards = the bag of cards that remain
    stack,              \* the cards the shuffle put on top of the shoe
    bankroll,           \* cents, NoBankroll until the first deposit
    cash_in,
    in_hand,
    phase,              \* "idle" | "player" | "dealer" | "settle"
    hands,              \* sequence of Hand records (hands[i+1] is the code's hands[i])
    cur,                \* 0-based index of the current hand, as in the code
    dealer,             \* sequence of cards, dealer[1] the upcard, dealer[2] the hole card
    split_happened,
    offered_insurance,
    insurance,
    insurance_active,
    peek_done,
    even_money_offered,
    even_money_decided,
    stats,
    side_stats,
    history,
    last                \* the call that produced this state: [op, args, direct]

shoeVars == <<shoe, stack>>
ledgerVars == <<bankroll, cash_in, stats, side_stats, history>>
roundVars == <<in_hand, phase, hands, cur, dealer, split_happened>>
insVars == <<offered_insurance, insurance, insurance_active, peek_done,
             even_money_offered, even_money_decided>>
\* everything the program itself holds (all but the record of the last call)
prog == <<shoeVars, ledgerVars, roundVars, insVars>>
vars == <<prog, last>>

\* split_limit, line 119
split_limit == 4
\* Shoe() default deck count, line 82
DefaultDecks == 6

\* ------------------------------------------------------------ inputs
\* Shuffles explored.  A stack [top, rest] stands for the shuffles in which the
\* i-th card dealt is one of top[i] for i <= Len(top) and one of rest after that.
Stack(top, rest) == [top |-> top, rest |-> rest]
Stacks == {
    \* aces and tens: naturals, even money, insurance, dealer blackjack, split aces
    Stack(<<>>, {<<"A","S">>, <<"K","S">>}),
    \* small cards: doubles on 10 and 11, pairs, dealer draws, busts
    Stack(<<>>, {<<"5","S">>, <<"6","S">>}),
    \* hard 17 and 20 for the dealer, pushes, three-card 21
    Stack(<<>>, {<<"K","H">>, <<"7","S">>}),
    \* soft 17 for the dealer, soft hands for the player
    Stack(<<>>, {<<"A","S">>, <<"6","H">>}),
    \* a player natural against a 6 or a ten-valued upcard
    Stack(<<{<<"A","S">>}, {<<"6","H">>, <<"K","S">>}, {<<"K","D">>}>>,
          {<<"6","H">>, <<"A","S">>})
}
\* the shuffles EngineSpec explores: the first two of Stacks
EngineStacks == {st \in Stacks : st.top = <<>> /\ \E c \in st.rest : c[1] \in {"K", "5"} /\ c[2] = "S"}
\* deposits and added funds, in cents (to_cents of the number inputs, lines 759-771)
Deposits == {100}
AddAmounts == {50}
\* (main, pp, t213) stakes in cents (to_cents of the number inputs, lines 894-898)
Bets == {<<45, 5, 5>>, <<60, 0, 0>>, <<80, 40, 5>>}

\* ------------------------------------------------------------ shoe
\* Shoe.__init__, lines 82-85: decks copies of every card
NewShoe(decks) == [decks |-> decks, cards |-> [c \in Deck |-> decks]]

\* one deck in the order line 84 builds it: for r in RANKS for s in SUITS
DeckList == [i \in 1..52 |-> <<RANKS[((i - 1) \div 4) + 1], SUITS[((i - 1) % 4) + 1]>>]

\* len(self.cards)
ShoeSize(sh) == BagCardinality(sh.cards)
\* how many copies of card c self.cards holds
Copies(sh, c) == CopiesIn(c, sh.cards)
\* cards dealt since the shoe was built
Dealt(sh) == sh.decks * 52 - ShoeSize(sh)

\* a shoe rebuilt before its last card is dealt
Refilled_with_one_card_left(sh) == IF ShoeSize(sh) <= 1 THEN NewShoe(sh.decks) ELSE sh

\* Shoe.deal, lines 86-89, first step: an empty shoe is rebuilt
Refilled(sh) == IF ShoeSize(sh) = 0 THEN NewShoe(sh.decks) ELSE sh
\* the cards that can be the one deal() pops
Tops(sh, st) ==
    LET s1 == Refilled(sh)
        k == Dealt(s1) + 1
    IN  {c \in (IF k <= Len(st.top) THEN st.top[k]
                 ELSE IF k > MaxDeals THEN {}
                 ELSE st.rest) : Copies(s1, c) > 0}
\* Shoe.deal, lines 86-89: the shoe after popping card c
deal(sh, c) == [Refilled(sh) EXCEPT !.cards = @ (-) SetToBag({c})]

\* n consecutive deal() calls: the set of <<cards dealt, shoe afterwards>>
RECURSIVE Deals(_, _, _)
Deals(sh, st, n) ==
    IF n = 0 THEN {<<<<>>, sh>>}
    ELSE UNION {{<<<<c>> \o r[1], r[2]>> : r \in Deals(deal(sh, c), st, n - 1)} :
                c \in Tops(sh, st)}

\* ------------------------------------------------------------ records
\* Hand, lines 92-102
Hand(cards, bet, split_aces, pp_bet, t213_bet) ==
    [cards |-> cards, bet |-> bet, doubled |-> FALSE, stood |-> FALSE, done |-> FALSE,
     split_aces |-> split_aces, pp_bet |-> pp_bet, t213_bet |-> t213_bet]

\* init_state, lines 131-135
InitStats == [played |-> 0, won |-> 0, lost |-> 0, push |-> 0]
InitSideStats ==
    [pp |-> [bets |-> 0, stake |-> 0, payout_return |-> 0,
             wins |-> [perfect |-> 0, colored |-> 0, mixed |-> 0]],
     t213 |-> [bets |-> 0, stake |-> 0, payout_return |-> 0,
               wins |-> [straight_flush |-> 0, three_kind |-> 0, straight |-> 0, flush |-> 0]]]

\* the record of a call made through the rendered UI, and of a direct call
Call(op, args) == [op |-> op, args |-> args, direct |-> FALSE]
DirectCall(op, args) == [op |-> op, args |-> args, direct |-> TRUE]

\* init_state, lines 105-148
Init ==
    /\ shoe = NewShoe(DefaultDecks)
    /\ stack \in Stacks
    /\ bankroll = NoBankroll
    /\ cash_in = 0
    /\ in_hand = FALSE
    /\ phase = "idle"
    /\ hands = <<>>
    /\ cur = 0
    /\ dealer = <<>>
    /\ split_happened = FALSE
    /\ offered_insurance = FALSE
    /\ insurance = 0
    /\ insurance_active = FALSE
    /\ peek_done = FALSE
    /\ even_money_offered = FALSE
    /\ even_money_decided = FALSE
    /\ stats = InitStats
    /\ side_stats = InitSideStats
    /\ history = <<>>
    /\ last = Call("init_state", <<>>)

\* ------------------------------------------------------------ settlement helpers
\* The ledger fields a settlement touches travel as one record
\* [bankroll, stats, history] through the helpers below.
Ledger(b, s, h) == [bankroll |-> b, stats |-> s, history |-> h]

\* log_history, lines 285-298: the record appended to the history
log_history(result, hand, payout, player_val, dealer_val) ==
    [result |-> result, player_value |-> player_val, dealer_value |-> dealer_val,
     bet |-> hand.bet, payout |-> payout,
     net |-> IF result = "win" THEN payout - hand.bet
             ELSE IF result = "push" THEN 0 ELSE 0 - hand.bet]

\* the three outcomes a hand can be booked as (the bodies of the branches of
\* settle, resolve_dealer_blackjack, start_round and take_even_money)
BookWin(L, h, pay, pv, dv) ==
    Ledger(L.bankroll + pay, [L.stats EXCEPT !.won = @ + 1],
           Append(L.history, log_history("win", h, pay, pv, dv)))
\* BookPush without the increment of the push counter
BookPush_uncounted(L, h, pv, dv) ==
    Ledger(L.bankroll + h.bet, L.stats,
           Append(L.history, log_history("push", h, h.bet, pv, dv)))

BookPush(L, h, pv, dv) ==
    Ledger(L.bankroll + h.bet, [L.stats EXCEPT !.push = @ + 1],
           Append(L.history, log_history("push", h, h.bet, pv, dv)))
BookLose(L, h, pv, dv) ==
    Ledger(L.bankroll, [L.stats EXCEPT !.lost = @ + 1],
           Append(L.history, log_history("lose", h, 0, pv, dv)))

\* settle paying 3:2 on every two-card 21, also after a split
settle_natural_after_split(L, h, dl, splith) ==
    LET pv == hand_value(h.cards)
        dv == hand_value(dl)
    IN  IF pv > 21 THEN BookLose(L, h, pv, dv)
        ELSE IF is_blackjack(h.cards) THEN BookWin(L, h, BlackjackPay(h.bet), pv, dv)
        ELSE IF dv > 21 THEN BookWin(L, h, h.bet * 2, pv, dv)
        ELSE IF pv > dv THEN BookWin(L, h, h.bet * 2, pv, dv)
        ELSE IF pv = dv THEN BookPush(L, h, pv, dv)
        ELSE BookLose(L, h, pv, dv)

\* settle, lines 562-615
settle(L, h, dl, splith) ==
    LET pv == hand_value(h.cards)
        dv == hand_value(dl)
    IN  IF pv > 21 THEN BookLose(L, h, pv, dv)
        ELSE IF is_blackjack(h.cards) /\ ~splith THEN BookWin(L, h, BlackjackPay(h.bet), pv, dv)
        ELSE IF dv > 21 THEN BookWin(L, h, h.bet * 2, pv, dv)
        ELSE IF pv > dv THEN BookWin(L, h, h.bet * 2, pv, dv)
        ELSE IF pv = dv THEN BookPush(L, h, pv, dv)
        ELSE BookLose(L, h, pv, dv)

\* for h in hands: settle(h), lines 877-878
RECURSIVE SettleAll(_, _, _, _)
SettleAll(L, hs, dl, splith) ==
    IF hs = <<>> THEN L
    ELSE CHOOSE R \in {SettleAll(L1, Tail(hs), dl, splith) :
                           L1 \in {settle(L, Head(hs), dl, splith)}} : TRUE

\* resolve_dealer_blackjack returning the insurance stake with 1:1 only
resolve_dealer_blackjack_insurance_1_to_1(L, ins, hs, dl) ==
    LET L1 == IF ins > 0 THEN [L EXCEPT !.bankroll = @ + ins * 2] ELSE L
        h == hs[1]
        pv == hand_value(h.cards)
        dv == hand_value(dl)
    IN  IF is_blackjack(h.cards) THEN BookPush(L1, h, pv, dv)
        ELSE BookLose(L1, h, pv, dv)

\* resolve_dealer_blackjack, lines 617-635
resolve_dealer_blackjack(L, ins, hs, dl) ==
    LET L1 == IF ins > 0 THEN [L EXCEPT !.bankroll = @ + ins * 3] ELSE L
        h == hs[1]
        pv == hand_value(h.cards)
        dv == hand_value(dl)
    IN  IF is_blackjack(h.cards) THEN BookPush(L1, h, pv, dv)
        ELSE BookLose(L1, h, pv, dv)

\* end_round, lines 637-641, on the stats (it also clears in_hand and insurance_active)
end_round(s) == [s EXCEPT !.played = @ + 1]

\* next_or_dealer moving to the last playable hand instead of the first
next_or_dealer_last_playable(hs, c) ==
    LET playable == {i \in 1..Len(hs) :
                        ~hs[i].done /\ ~hs[i].stood /\ hand_value(hs[i].cards) <= 21}
    IN  IF playable # {}
        THEN [cur |-> (CHOOSE i \in playable : \A j \in playable : i >= j) - 1,
              phase |-> "player"]
        ELSE [cur |-> c, phase |-> "dealer"]

\* next_or_dealer leaving the current index where it is
next_or_dealer_keeps_cur(hs, c) ==
    LET playable == {i \in 1..Len(hs) :
                        ~hs[i].done /\ ~hs[i].stood /\ hand_value(hs[i].cards) <= 21}
    IN  IF playable # {}
        THEN [cur |-> c,
              phase |-> "player"]
        ELSE [cur |-> c, phase |-> "dealer"]

\* next_or_dealer, lines 643-650: the new [cur, phase]
next_or_dealer(hs, c) ==
    LET playable == {i \in 1..Len(hs) :
                        ~hs[i].done /\ ~hs[i].stood /\ hand_value(hs[i].cards) <= 21}
    IN  IF playable # {}
        THEN [cur |-> (CHOOSE i \in playable : \A j \in playable : i <= j) - 1,
              phase |-> "player"]
        ELSE [cur |-> c, phase |-> "dealer"]

\* evaluate_sidebets, lines 532-555: the new [bankroll, side_stats]
evaluate_sidebets(h, up, b, ss) ==
    LET kind == pp_kind(h.cards[1], h.cards[2])
        ppHit == h.pp_bet > 0 /\ kind # NONE
        ppGain == IF ppHit THEN h.pp_bet * (PP_PAYOUTS[kind] + 1) ELSE 0
        ss1 == IF ppHit
               THEN [ss EXCEPT !.pp.payout_return = @ + ppGain, !.pp.wins[kind] = @ + 1]
               ELSE ss
        res == eval_21p3(h.cards, up)
        tHit == h.t213_bet > 0 /\ res # NONE
        tGain == IF tHit THEN h.t213_bet * (T213_PAYOUTS[res] + 1) ELSE 0
        ss2 == IF tHit
               THEN [ss1 EXCEPT !.t213.payout_return = @ + tGain, !.t213.wins[res] = @ + 1]
               ELSE ss1
    IN  [bankroll |-> b + ppGain + tGain, side_stats |-> ss2]

\* total with every ace counted as 1
RECURSIVE HardTotal(_)
HardTotal(cards) ==
    IF cards = <<>> THEN 0
    ELSE (IF Head(cards)[1] = "A" THEN 1 ELSE card_value(Head(cards)[1]))
         + HardTotal(Tail(cards))

\* a dealer who also draws on a soft 17 (H17)
RECURSIVE dealer_play_hits_soft_17(_, _, _)
dealer_play_hits_soft_17(dl, sh, st) ==
    IF hand_value(dl) < 17 \/ (hand_value(dl) = 17 /\ HardTotal(dl) = 7)
    THEN UNION {dealer_play_hits_soft_17(Append(dl, c), deal(sh, c), st) : c \in Tops(sh, st)}
    ELSE {<<dl, sh>>}

\* a dealer who stops drawing at 16
RECURSIVE dealer_play_stands_on_16(_, _, _)
dealer_play_stands_on_16(dl, sh, st) ==
    IF hand_value(dl) < 16
    THEN UNION {dealer_play_stands_on_16(Append(dl, c), deal(sh, c), st) : c \in Tops(sh, st)}
    ELSE {<<dl, sh>>}

\* dealer_play, lines 557-560: every <<dealer hand, shoe>> the loop can end in
RECURSIVE dealer_play(_, _, _)
dealer_play(dl, sh, st) ==
    IF hand_value(dl) < 17
    THEN UNION {dealer_play(Append(dl, c), deal(sh, c), st) : c \in Tops(sh, st)}
    ELSE {<<dl, sh>>}

\* ------------------------------------------------------------ engine operations
\* start_round checking the main bet only, not the side-bet stakes
start_round_rejects_main_only(b, main, pp, t213) == b = NoBankroll \/ b < main

\* the rejection test of start_round, line 463
start_round_rejects(b, main, pp, t213) == b = NoBankroll \/ b < main + pp + t213

\* side bet stake tracking of start_round, lines 470-475
TrackStakes(ss, pp, t213) ==
    LET ss1 == IF pp > 0 THEN [ss EXCEPT !.pp.bets = @ + 1, !.pp.stake = @ + pp] ELSE ss
    IN  IF t213 > 0 THEN [ss1 EXCEPT !.t213.bets = @ + 1, !.t213.stake = @ + t213] ELSE ss1

\* start_round, lines 460-530
start_round(main, pp, t213) ==
    IF start_round_rejects(bankroll, main, pp, t213)
    THEN UNCHANGED prog
    ELSE \E d \in Deals(shoe, stack, 4) :
        LET h0 == Hand(<<d[1][1], d[1][3]>>, main, FALSE, pp, t213)
            dl == <<d[1][2], d[1][4]>>
            up_r == dl[1][1]
            sb == evaluate_sidebets(h0, dl[1], bankroll - (main + pp + t213),
                                    TrackStakes(side_stats, pp, t213))
            L0 == Ledger(sb.bankroll, stats, history)
            playerBJ == is_blackjack(h0.cards)
            tenUp == up_r \in {"10","J","Q","K"}
            \* lines 516-519: the peek under a ten-valued upcard finds a blackjack
            dealerBJ == playerBJ /\ tenUp /\ is_blackjack(dl)
            \* lines 520-530: natural blackjack paid at once
            natural == playerBJ /\ up_r \notin {"A","10","J","Q","K"}
            L1 == IF dealerBJ THEN resolve_dealer_blackjack(L0, 0, <<h0>>, dl)
                  ELSE IF natural
                  THEN BookWin(L0, h0, BlackjackPay(h0.bet),
                               hand_value(h0.cards), hand_value(dl))
                  ELSE L0
            over == dealerBJ \/ natural
        IN  /\ shoe' = d[2]
            /\ stack' = stack
            /\ bankroll' = L1.bankroll
            /\ cash_in' = cash_in
            /\ stats' = IF over THEN end_round(L1.stats) ELSE L1.stats
            /\ side_stats' = sb.side_stats
            /\ history' = L1.history
            /\ hands' = <<h0>>
            /\ cur' = 0
            /\ dealer' = dl
            /\ in_hand' = ~over
            /\ phase' = IF over THEN "idle" ELSE "player"
            /\ split_happened' = FALSE
            /\ offered_insurance' = (playerBJ /\ up_r = "A")
            /\ insurance' = 0
            /\ insurance_active' = FALSE
            /\ peek_done' = (playerBJ /\ tenUp)
            /\ even_money_offered' = (playerBJ /\ up_r = "A")
            /\ even_money_decided' = FALSE

\* the refusal of act_hit without the test of the done flag
hit_refused_ignores_done(h) == h.stood \/ h.split_aces

\* the guard of act_hit, line 656
hit_refused(h) == h.done \/ h.stood \/ h.split_aces

\* act_hit marking a busted hand stood as well as done
act_hit_stands_on_bust ==
    LET h == hands[cur + 1]
    IN  IF hit_refused(h)
        THEN UNCHANGED prog
        ELSE \E c \in Tops(shoe, stack) :
            LET cards2 == Append(h.cards, c)
                v == hand_value(cards2)
                h2 == IF v >= 21
                      THEN [h EXCEPT !.cards = cards2, !.done = TRUE, !.stood = TRUE]
                      ELSE [h EXCEPT !.cards = cards2]
                hs2 == [hands EXCEPT ![cur + 1] = h2]
                nd == IF v >= 21 THEN next_or_dealer(hs2, cur)
                      ELSE [cur |-> cur, phase |-> phase]
            IN  /\ shoe' = deal(shoe, c)
                /\ hands' = hs2
                /\ cur' = nd.cur
                /\ phase' = nd.phase
                /\ UNCHANGED <<stack, ledgerVars, in_hand, dealer, split_happened, insVars>>

\* act_hit, lines 653-663
act_hit ==
    LET h == hands[cur + 1]
    IN  IF hit_refused(h)
        THEN UNCHANGED prog
        ELSE \E c \in Tops(shoe, stack) :
            LET cards2 == Append(h.cards, c)
                v == hand_value(cards2)
                h2 == IF v >= 21
                      THEN [h EXCEPT !.cards = cards2, !.done = TRUE, !.stood = (v = 21)]
                      ELSE [h EXCEPT !.cards = cards2]
                hs2 == [hands EXCEPT ![cur + 1] = h2]
                nd == IF v >= 21 THEN next_or_dealer(hs2, cur)
                      ELSE [cur |-> cur, phase |-> phase]
            IN  /\ shoe' = deal(shoe, c)
                /\ hands' = hs2
                /\ cur' = nd.cur
                /\ phase' = nd.phase
                /\ UNCHANGED <<stack, ledgerVars, in_hand, dealer, split_happened, insVars>>

\* act_stand, lines 665-670
act_stand ==
    LET h == hands[cur + 1]
        hs2 == [hands EXCEPT ![cur + 1] = [h EXCEPT !.stood = TRUE, !.done = TRUE]]
        nd == next_or_dealer(hs2, cur)
    IN  /\ hands' = hs2
        /\ cur' = nd.cur
        /\ phase' = nd.phase
        /\ UNCHANGED <<shoeVars, ledgerVars, in_hand, dealer, split_happened, insVars>>

\* ok of act_double, line 676
double_ok(h) ==
    /\ Len(h.cards) = 2
    /\ 9 <= hand_value(h.cards) /\ hand_value(h.cards) <= 11
    /\ ~h.doubled /\ ~h.stood /\ ~h.done /\ ~h.split_aces

\* a bankroll test that lets an empty bankroll through
cannot_afford_negative_only(b, h) == b < 0

\* the bankroll test of act_double and act_split, lines 679 and 702
cannot_afford(b, h) == b < h.bet

\* act_double, lines 672-686
act_double ==
    LET h == hands[cur + 1]
    IN  IF ~double_ok(h) \/ cannot_afford(bankroll, h)
        THEN UNCHANGED prog
        ELSE \E c \in Tops(shoe, stack) :
            LET h2 == [h EXCEPT !.bet = @ * 2, !.doubled = TRUE,
                                !.cards = Append(@, c), !.done = TRUE]
                hs2 == [hands EXCEPT ![cur + 1] = h2]
                nd == next_or_dealer(hs2, cur)
            IN  /\ bankroll' = bankroll - h.bet
                /\ shoe' = deal(shoe, c)
                /\ hands' = hs2
                /\ cur' = nd.cur
                /\ phase' = nd.phase
                /\ UNCHANGED <<stack, cash_in, stats, side_stats, history,
                               in_hand, dealer, split_happened, insVars>>

\* can_split without the limit on the number of hands
can_split_any_number(h) ==
    /\ ~(Len(h.cards) # 2 \/ h.done \/ h.stood)
    /\ h.cards[1][1] = h.cards[2][1]

\* can_split, lines 688-695
can_split(h) ==
    /\ ~(Len(h.cards) # 2 \/ h.done \/ h.stood)
    /\ h.cards[1][1] = h.cards[2][1]
    /\ Len(hands) < split_limit

\* act_split leaving split aces open for further play
act_split_aces_stay_open ==
    LET h == hands[cur + 1]
    IN  IF ~can_split(h) \/ cannot_afford(bankroll, h)
        THEN UNCHANGED prog
        ELSE \E d \in Deals(shoe, stack, 2) :
            LET c1 == h.cards[1]
                c2 == h.cards[2]
                is_aces == c1[1] = "A" /\ c2[1] = "A"
                h2 == [h EXCEPT !.cards = <<c1, d[1][1]>>, !.split_aces = is_aces,
                                !.stood = @, !.done = @]
                n0 == Hand(<<c2, d[1][2]>>, h.bet, is_aces, 0, 0)
                new_hand == n0
                hs2 == SubSeq(hands, 1, cur) \o <<h2, new_hand>>
                       \o SubSeq(hands, cur + 2, Len(hands))
                nd == next_or_dealer(hs2, cur)
            IN  /\ bankroll' = bankroll - h.bet
                /\ shoe' = d[2]
                /\ hands' = hs2
                /\ split_happened' = TRUE
                /\ cur' = nd.cur
                /\ phase' = nd.phase
                /\ UNCHANGED <<stack, cash_in, stats, side_stats, history,
                               in_hand, dealer, insVars>>

\* act_split giving the new hand the side bets of the hand it came from
act_split_copies_side_bets ==
    LET h == hands[cur + 1]
    IN  IF ~can_split(h) \/ cannot_afford(bankroll, h)
        THEN UNCHANGED prog
        ELSE \E d \in Deals(shoe, stack, 2) :
            LET c1 == h.cards[1]
                c2 == h.cards[2]
                is_aces == c1[1] = "A" /\ c2[1] = "A"
                h2 == [h EXCEPT !.cards = <<c1, d[1][1]>>, !.split_aces = is_aces,
                                !.stood = IF is_aces THEN TRUE ELSE @,
                                !.done = IF is_aces THEN TRUE ELSE @]
                n0 == Hand(<<c2, d[1][2]>>, h.bet, is_aces, h.pp_bet, h.t213_bet)
                new_hand == [n0 EXCEPT !.stood = is_aces, !.done = is_aces]
                hs2 == SubSeq(hands, 1, cur) \o <<h2, new_hand>>
                       \o SubSeq(hands, cur + 2, Len(hands))
                nd == next_or_dealer(hs2, cur)
            IN  /\ bankroll' = bankroll - h.bet
                /\ shoe' = d[2]
                /\ hands' = hs2
                /\ split_happened' = TRUE
                /\ cur' = nd.cur
                /\ phase' = nd.phase
                /\ UNCHANGED <<stack, cash_in, stats, side_stats, history,
                               in_hand, dealer, insVars>>

\* act_split evaluating the side bets again on the first of the two hands
act_split_reevaluates_side_bets ==
    LET h == hands[cur + 1]
    IN  IF ~can_split(h) \/ cannot_afford(bankroll, h)
        THEN UNCHANGED prog
        ELSE \E d \in Deals(shoe, stack, 2) :
            LET c1 == h.cards[1]
                c2 == h.cards[2]
                is_aces == c1[1] = "A" /\ c2[1] = "A"
                h2 == [h EXCEPT !.cards = <<c1, d[1][1]>>, !.split_aces = is_aces,
                                !.stood = IF is_aces THEN TRUE ELSE @,
                                !.done = IF is_aces THEN TRUE ELSE @]
                n0 == Hand(<<c2, d[1][2]>>, h.bet, is_aces, 0, 0)
                new_hand == [n0 EXCEPT !.stood = is_aces, !.done = is_aces]
                hs2 == SubSeq(hands, 1, cur) \o <<h2, new_hand>>
                       \o SubSeq(hands, cur + 2, Len(hands))
                nd == next_or_dealer(hs2, cur)
            IN  /\ bankroll' = bankroll - h.bet
                /\ shoe' = d[2]
                /\ hands' = hs2
                /\ split_happened' = TRUE
                /\ cur' = nd.cur
                /\ phase' = nd.phase
                /\ side_stats' = evaluate_sidebets(h2, dealer[1], bankroll, side_stats).side_stats
                /\ UNCHANGED <<stack, cash_in, stats, history,
                               in_hand, dealer, insVars>>

\* act_split, lines 697-717
act_split ==
    LET h == hands[cur + 1]
    IN  IF ~can_split(h) \/ cannot_afford(bankroll, h)
        THEN UNCHANGED prog
        ELSE \E d \in Deals(shoe, stack, 2) :
            LET c1 == h.cards[1]
                c2 == h.cards[2]
                is_aces == c1[1] = "A" /\ c2[1] = "A"
                h2 == [h EXCEPT !.cards = <<c1, d[1][1]>>, !.split_aces = is_aces,
                                !.stood = IF is_aces THEN TRUE ELSE @,
                                !.done = IF is_aces THEN TRUE ELSE @]
                n0 == Hand(<<c2, d[1][2]>>, h.bet, is_aces, 0, 0)
                new_hand == [n0 EXCEPT !.stood = is_aces, !.done = is_aces]
                hs2 == SubSeq(hands, 1, cur) \o <<h2, new_hand>>
                       \o SubSeq(hands, cur + 2, Len(hands))
                nd == next_or_dealer(hs2, cur)
            IN  /\ bankroll' = bankroll - h.bet
                /\ shoe' = d[2]
                /\ hands' = hs2
                /\ split_happened' = TRUE
                /\ cur' = nd.cur
                /\ phase' = nd.phase
                /\ UNCHANGED <<stack, cash_in, stats, side_stats, history,
                               in_hand, dealer, insVars>>

\* take_insurance without the test of the bankroll
take_insurance_unguarded ==
    LET max_ins == hands[1].bet \div 2
    IN  IF insurance > 0 \/ max_ins <= 0
        THEN UNCHANGED prog
        ELSE /\ bankroll' = bankroll - max_ins
             /\ insurance' = max_ins
             /\ insurance_active' = TRUE
             /\ UNCHANGED <<shoeVars, cash_in, stats, side_stats, history, roundVars,
                            offered_insurance, peek_done,
                            even_money_offered, even_money_decided>>

\* take_insurance, lines 720-731
take_insurance ==
    LET max_ins == hands[1].bet \div 2
    IN  IF insurance > 0 \/ max_ins <= 0 \/ bankroll < max_ins
        THEN UNCHANGED prog
        ELSE /\ bankroll' = bankroll - max_ins
             /\ insurance' = max_ins
             /\ insurance_active' = TRUE
             /\ UNCHANGED <<shoeVars, cash_in, stats, side_stats, history, roundVars,
                            offered_insurance, peek_done,
                            even_money_offered, even_money_decided>>

\* take_even_money paying the natural 3:2 instead of 1:1
take_even_money_pays_3_to_2 ==
    LET h == hands[1]
        L1 == BookWin(Ledger(bankroll, stats, history), h, BlackjackPay(h.bet),
                      hand_value(h.cards), hand_value(dealer))
    IN  /\ bankroll' = L1.bankroll
        /\ stats' = end_round(L1.stats)
        /\ history' = L1.history
        /\ even_money_decided' = TRUE
        /\ in_hand' = FALSE
        /\ insurance_active' = FALSE
        /\ phase' = "idle"
        /\ UNCHANGED <<shoeVars, cash_in, side_stats, hands, cur, dealer, split_happened,
                       offered_insurance, insurance, peek_done, even_money_offered>>

\* take_even_money, lines 733-744
take_even_money ==
    LET h == hands[1]
        L1 == BookWin(Ledger(bankroll, stats, history), h, h.bet * 2,
                      hand_value(h.cards), hand_value(dealer))
    IN  /\ bankroll' = L1.bankroll
        /\ stats' = end_round(L1.stats)
        /\ history' = L1.history
        /\ even_money_decided' = TRUE
        /\ in_hand' = FALSE
        /\ insurance_active' = FALSE
        /\ phase' = "idle"
        /\ UNCHANGED <<shoeVars, cash_in, side_stats, hands, cur, dealer, split_happened,
                       offered_insurance, insurance, peek_done, even_money_offered>>

\* the peek shared by decline_even_money (lines 749-753) and the
\* "Peek & continue" button (lines 932-936)
PeekNow ==
    /\ peek_done' = TRUE
    /\ IF is_blackjack(dealer)
       THEN LET L1 == resolve_dealer_blackjack(Ledger(bankroll, stats, history),
                                               insurance, hands, dealer)
            IN  /\ bankroll' = L1.bankroll
                /\ stats' = end_round(L1.stats)
                /\ history' = L1.history
                /\ in_hand' = FALSE
                /\ insurance_active' = FALSE
                /\ phase' = "idle"
       ELSE UNCHANGED <<bankroll, stats, history, in_hand, insurance_active, phase>>
    /\ UNCHANGED <<shoeVars, cash_in, side_stats, hands, cur, dealer, split_happened,
                   offered_insurance, insurance, even_money_offered>>

\* decline_even_money, lines 746-753
decline_even_money ==
    /\ even_money_decided' = TRUE
    /\ PeekNow

\* "Peek & continue", lines 931-937
peek_and_continue ==
    /\ PeekNow
    /\ UNCHANGED even_money_decided

\* phase engine, dealer block, lines 870-874
phase_dealer ==
    /\ in_hand
    /\ phase = "dealer"
    /\ \E r \in dealer_play(dealer, shoe, stack) :
        /\ dealer' = r[1]
        /\ shoe' = r[2]
    /\ peek_done' = TRUE
    /\ phase' = "settle"
    /\ UNCHANGED <<stack, ledgerVars, in_hand, hands, cur, split_happened,
                   offered_insurance, insurance, insurance_active,
                   even_money_offered, even_money_decided>>

\* phase engine, settle block, lines 876-881
phase_settle ==
    /\ in_hand
    /\ phase = "settle"
    /\ \E L1 \in {SettleAll(Ledger(bankroll, stats, history), hands, dealer, split_happened)} :
           /\ bankroll' = L1.bankroll
           /\ stats' = end_round(L1.stats)
           /\ history' = L1.history
    /\ in_hand' = FALSE
    /\ insurance_active' = FALSE
    /\ phase' = "idle"
    /\ UNCHANGED <<shoeVars, cash_in, side_stats, hands, cur, dealer, split_happened,
                   offered_insurance, insurance, peek_done,
                   even_money_offered, even_money_decided>>

\* sidebar "Deposit", lines 758-764
deposit(cents) ==
    /\ bankroll = NoBankroll
    /\ bankroll' = cents
    /\ cash_in' = cents
    /\ UNCHANGED <<shoeVars, stats, side_stats, history, roundVars, insVars>>

\* sidebar "Add", lines 767-772
add_funds(c) ==
    /\ bankroll # NoBankroll
    /\ cash_in + c <= MaxCashIn
    /\ bankroll' = bankroll + c
    /\ cash_in' = cash_in + c
    /\ UNCHANGED <<shoeVars, stats, side_stats, history, roundVars, insVars>>

\* sidebar "Cash out (end)", lines 775-791: init_state() again, with a new shoe
cash_out ==
    /\ bankroll # NoBankroll
    /\ shoe' = NewShoe(DefaultDecks)
    /\ stack' \in Stacks
    /\ bankroll' = NoBankroll
    /\ cash_in' = 0
    /\ in_hand' = FALSE
    /\ phase' = "idle"
    /\ hands' = <<>>
    /\ cur' = 0
    /\ dealer' = <<>>
    /\ split_happened' = FALSE
    /\ offered_insurance' = FALSE
    /\ insurance' = 0
    /\ insurance_active' = FALSE
    /\ peek_done' = FALSE
    /\ even_money_offered' = FALSE
    /\ even_money_decided' = FALSE
    /\ stats' = InitStats
    /\ side_stats' = InitSideStats
    /\ history' = <<>>

\* ------------------------------------------------------------ the rendered UI
\* the script reaches its widgets: the phase engine (lines 869-881) is not
\* about to run and rerun the script
Interactive == ~(in_hand /\ phase \in {"dealer", "settle"})

\* the even-money buttons are rendered, lines 910-912 (st.stop() follows, line 919)
EvenMoneyShown ==
    /\ in_hand
    /\ is_blackjack(hands[1].cards)
    /\ ~even_money_decided
    /\ dealer # <<>> /\ dealer[1][1] = "A"
    /\ phase = "player"

\* the insurance buttons are rendered, lines 922-925
InsuranceShown ==
    /\ in_hand /\ ~EvenMoneyShown
    /\ dealer # <<>> /\ dealer[1][1] = "A"
    /\ ~peek_done
    /\ ~(is_blackjack(hands[1].cards) /\ ~even_money_decided)
    /\ phase = "player"

\* the action buttons are rendered, lines 939-956
ActionsShown == in_hand /\ Interactive /\ ~EvenMoneyShown

\* can_hit, can_stand, can_double, can_split_now, lines 942-946
can_hit ==
    LET h == hands[cur + 1]
    IN  phase = "player" /\ ~h.done /\ ~h.stood /\ ~h.split_aces /\ hand_value(h.cards) < 21
\* can_stand offered only below 21, as can_hit is
can_stand_below_21 ==
    LET h == hands[cur + 1]
    IN  phase = "player" /\ ~h.done /\ ~h.stood /\ hand_value(h.cards) < 21

can_stand ==
    LET h == hands[cur + 1]
    IN  phase = "player" /\ ~h.done /\ ~h.stood
can_double ==
    LET h == hands[cur + 1]
    IN  phase = "player" /\ double_ok(h) /\ bankroll >= h.bet
can_split_now ==
    LET h == hands[cur + 1]
    IN  phase = "player" /\ can_split(h) /\ bankroll >= h.bet

\* ------------------------------------------------------------ Spec: the program
Deposit ==
    \E c \in Deposits : deposit(c) /\ last' = Call("deposit", <<c>>)
AddFunds ==
    \E c \in AddAmounts : Interactive /\ add_funds(c) /\ last' = Call("add_funds", <<c>>)
CashOut ==
    Interactive /\ cash_out /\ last' = Call("init_state", <<>>)
\* "Deal", lines 884-907
Deal ==
    \E b \in Bets :
        /\ bankroll # NoBankroll /\ ~in_hand
        /\ start_round(b[1], b[2], b[3])
        /\ last' = Call("start_round", b)
EvenMoney ==
    EvenMoneyShown /\ take_even_money /\ last' = Call("take_even_money", <<>>)
PlayNormally ==
    EvenMoneyShown /\ decline_even_money /\ last' = Call("decline_even_money", <<>>)
TakeInsurance ==
    InsuranceShown /\ take_insurance /\ last' = Call("take_insurance", <<>>)
Peek ==
    InsuranceShown /\ peek_and_continue /\ last' = Call("peek", <<>>)
Hit ==
    ActionsShown /\ can_hit /\ act_hit /\ last' = Call("act_hit", <<>>)
Stand ==
    ActionsShown /\ can_stand /\ act_stand /\ last' = Call("act_stand", <<>>)
Double ==
    ActionsShown /\ can_double /\ act_double /\ last' = Call("act_double", <<>>)
Split ==
    ActionsShown /\ can_split_now /\ act_split /\ last' = Call("act_split", <<>>)
DealerPhase ==
    phase_dealer /\ last' = Call("phase_dealer", <<>>)
SettlePhase ==
    phase_settle /\ last' = Call("phase_settle", <<>>)

Next ==
    \/ Deposit \/ AddFunds \/ CashOut \/ Deal
    \/ EvenMoney \/ PlayNormally \/ TakeInsurance \/ Peek
    \/ Hit \/ Stand \/ Double \/ Split
    \/ DealerPhase \/ SettlePhase

Spec == Init /\ [][Next]_vars

\* ------------------------------------------------------------ EngineSpec: direct calls
\* One session of the program as above (without the sidebar's "Add" and
\* "Cash out"), followed up to and including the first engine function called
\* directly in a state in which the rendered UI would not have called it.
\* a round object exists, so hands[cur] and hands[0] do not raise IndexError
RoundExists == hands # <<>>
\* no direct call has been made yet
Rendered == ~last.direct

CallStartRound ==
    \E b \in Bets :
        /\ Rendered /\ ~(bankroll # NoBankroll /\ ~in_hand)
        /\ start_round(b[1], b[2], b[3])
        /\ last' = DirectCall("start_round", b)
CallHit ==
    /\ Rendered /\ RoundExists /\ ~(ActionsShown /\ can_hit)
    /\ act_hit /\ last' = DirectCall("act_hit", <<>>)
CallStand ==
    /\ Rendered /\ RoundExists /\ ~(ActionsShown /\ can_stand)
    /\ act_stand /\ last' = DirectCall("act_stand", <<>>)
CallDouble ==
    /\ Rendered /\ RoundExists /\ ~(ActionsShown /\ can_double)
    /\ act_double /\ last' = DirectCall("act_double", <<>>)
CallSplit ==
    /\ Rendered /\ RoundExists /\ ~(ActionsShown /\ can_split_now)
    /\ act_split /\ last' = DirectCall("act_split", <<>>)
CallTakeInsurance ==
    /\ Rendered /\ RoundExists /\ ~InsuranceShown
    /\ take_insurance /\ last' = DirectCall("take_insurance", <<>>)
CallTakeEvenMoney ==
    /\ Rendered /\ RoundExists /\ ~EvenMoneyShown
    /\ take_even_money /\ last' = DirectCall("take_even_money", <<>>)
CallDeclineEvenMoney ==
    /\ Rendered /\ RoundExists /\ ~EvenMoneyShown
    /\ decline_even_money /\ last' = DirectCall("decline_even_money", <<>>)

\* the program's own steps, while no direct call has been made
Program ==
    /\ Rendered
    /\ \/ Deposit \/ Deal
       \/ EvenMoney \/ PlayNormally \/ TakeInsurance \/ Peek
       \/ Hit \/ Stand \/ Double \/ Split
       \/ DealerPhase \/ SettlePhase

EngineNext ==
    \/ Program
    \/ CallStartRound
    \/ CallTakeEvenMoney \/ CallDeclineEvenMoney \/ CallTakeInsurance
    \/ CallHit \/ CallStand \/ CallDouble \/ CallSplit

EngineInit == Init /\ stack \in EngineStacks

EngineSpec == EngineInit /\ [][EngineNext]_vars

\* ------------------------------------------------------------ HandSpec: hand_value
\* hand_value applied to every card sequence of up to MaxHandLen cards over all
\* ranks.  The sequence is built in dealer, one append at a time (as lines 560
\* and 658 append); the total hand_value returns for it is kept in last.
\* the shuffle plays no part here
AnyStack == CHOOSE st \in Stacks : st.top = <<>>

HandInit == Init /\ stack = AnyStack

HandAppend ==
    /\ Len(dealer) < MaxHandLen
    /\ \E r \in RankSet : dealer' = Append(dealer, <<r, "S">>)
    /\ last' = Call("hand_value", <<hand_value(dealer')>>)
    /\ UNCHANGED <<shoeVars, ledgerVars, in_hand, phase, hands, cur, split_happened, insVars>>

HandNext == HandAppend

HandSpec == HandInit /\ [][HandNext]_vars

\* ------------------------------------------------------------ ShoeSpec: Shoe
\* A shoe of 1..MaxDecks decks (the decks parameter of line 82), dealt card
\* after card through emptying and rebuilding.  Of all shuffles, those are explored in
\* which every pop takes the first or the last remaining card in deck order.
ShoeDecks == 1..MaxDecks

\* init_state, lines 105-148, but for the shoe
NoSession ==
    /\ bankroll = NoBankroll /\ cash_in = 0
    /\ in_hand = FALSE /\ phase = "idle"
    /\ hands = <<>> /\ cur = 0 /\ dealer = <<>>
    /\ split_happened = FALSE
    /\ offered_insurance = FALSE /\ insurance = 0 /\ insurance_active = FALSE
    /\ peek_done = FALSE /\ even_money_offered = FALSE /\ even_money_decided = FALSE
    /\ stats = InitStats /\ side_stats = InitSideStats /\ history = <<>>

ShoeInit ==
    /\ \E n \in ShoeDecks : shoe = NewShoe(n)
    /\ stack = AnyStack
    /\ NoSession
    /\ last = Call("Shoe", <<>>)

\* the cards the pop of line 89 can return in the shuffles explored
ShoeTops(sh) ==
    LET s1 == Refilled(sh)
        left == {i \in 1..52 : Copies(s1, DeckList[i]) > 0}
    IN  {DeckList[i] : i \in {j \in left : (\A k \in left : j <= k) \/ (\A k \in left : k <= j)}}

\* shoe.deal(); last keeps the card returned and len(self.cards) as the call found it
ShoeDeal ==
    /\ \E c \in ShoeTops(shoe) :
        /\ shoe' = deal(shoe, c)
        /\ last' = Call("deal", <<c, ShoeSize(shoe)>>)
    /\ UNCHANGED <<stack, ledgerVars, roundVars, insVars>>

ShoeNext == ShoeDeal

ShoeSpec == ShoeInit /\ [][ShoeNext]_vars

\* ------------------------------------------------------------ SideBetSpec: side bets
\* Deposit and one Deal over the shuffles that put any spade or a red 10 or K
\* first (player), any spade second (upcard), any card at all third (player)
\* and a fixed hole card fourth: every Perfect Pairs and 21+3 case.
SideFirst == (RankSet \X {"S"}) \cup ({"10", "K"} \X {"H"})
SideStack ==
    Stack(<<SideFirst, RankSet \X {"S"}, Deck, {<<"2","C">>}>>, {})

SideInit ==
    /\ shoe = NewShoe(DefaultDecks)
    /\ stack = SideStack
    /\ NoSession
    /\ last = Call("init_state", <<>>)

SideNext == Deposit \/ Deal

SideBetSpec == SideInit /\ [][SideNext]_vars

\* ------------------------------------------------------------ SplitSpec: repeated splits
\* One round on a shoe whose first MaxSplitDeals cards are all eights (three of
\* each suit in turn), so that every hand dealt is a pair: the program's own
\* steps, up to and including the first direct act_split() call.
SplitStack ==
    Stack([i \in 1..MaxSplitDeals |-> {<<"8", SUITS[(((i - 1) \div 3) % 4) + 1]>>}], {})

SplitInit ==
    /\ shoe = NewShoe(DefaultDecks)
    /\ stack = SplitStack
    /\ NoSession
    /\ last = Call("init_state", <<>>)

SplitProgram ==
    /\ Rendered
    /\ \/ Deposit \/ Deal
       \/ Hit \/ Stand \/ Split
       \/ DealerPhase \/ SettlePhase

SplitNext == SplitProgram \/ CallSplit

SplitSpec == SplitInit /\ [][SplitNext]_vars

\* ------------------------------------------------------------ InsuranceSpec: insurance during play
\* One round on a shoe that deals the player a pair of fives against an Ace
\* upcard, with a six or a king in the hole: the insurance buttons stay on the
\* page next to the action buttons while the player splits, doubles and hits.
InsuranceStack ==
    Stack(<<{<<"5","S">>}, {<<"A","S">>}, {<<"5","S">>}, {<<"6","H">>, <<"K","H">>}>>,
          {<<"5","S">>, <<"6","S">>})

InsuranceInit ==
    /\ shoe = NewShoe(DefaultDecks)
    /\ stack = InsuranceStack
    /\ NoSession
    /\ last = Call("init_state", <<>>)

InsuranceNext ==
    \/ Deposit \/ Deal
    \/ TakeInsurance \/ Peek
    \/ Hit \/ Stand \/ Double \/ Split
    \/ DealerPhase \/ SettlePhase

InsuranceSpec == InsuranceInit /\ [][InsuranceNext]_vars

\* ------------------------------------------------------------ RoundSpec: a round played to its end
\* One round from a fresh shoe whose first MaxRoundDeals cards are fives, one
\* suit after the other, but for the four cards of the deal: four hands of five
\* cards and a dealer hand of four are the longest round these cards allow, so
\* the shoe never limits what the player or the dealer can do. The player does
\* not stop pressing the enabled action and even-money buttons and the
\* script's reruns advance the dealer and settle phases (st.rerun(), lines 874
\* and 881).
RoundTop(first) ==
    [i \in 1..MaxRoundDeals |->
        IF i <= Len(first) THEN first[i] ELSE {<<"5", SUITS[((i - 1) % 4) + 1]>>}]
RoundStacks == {
    \* a pair of fives against a five: splits, doubles, hits, dealer draws
    Stack(RoundTop(<<>>), {}),
    \* a natural against a five or an Ace: paid at once, even money, peek
    Stack(RoundTop(<<{<<"A","S">>}, {<<"5","H">>, <<"A","H">>},
                     {<<"K","D">>}, {<<"5","C">>, <<"K","C">>}>>), {}),
    \* fifteen against an Ace: insurance and peek next to the action buttons
    Stack(RoundTop(<<{<<"5","S">>}, {<<"A","H">>},
                     {<<"K","D">>}, {<<"5","C">>, <<"K","C">>}>>), {})
}

RoundInit ==
    /\ shoe = NewShoe(DefaultDecks)
    /\ stack \in RoundStacks
    /\ NoSession
    /\ last = Call("init_state", <<>>)

\* "Deal" pressed on the fresh shoe
FirstDeal == Dealt(shoe) = 0 /\ Deal

\* the buttons that move a round on: the four actions and the even-money pair
PlayerMove == Stand \/ EvenMoney \/ PlayNormally \/ Hit \/ Double \/ Split

RoundNext ==
    \/ Deposit \/ FirstDeal
    \/ EvenMoney \/ PlayNormally \/ TakeInsurance \/ Peek
    \/ Hit \/ Stand \/ Double \/ Split
    \/ DealerPhase \/ SettlePhase

RoundSpec ==
    /\ RoundInit /\ [][RoundNext]_vars
    /\ WF_vars(PlayerMove)
    /\ WF_vars(DealerPhase)
    /\ WF_vars(SettlePhase)

\* ------------------------------------------------------------ claims
ActionOps == {"act_hit", "act_stand", "act_double", "act_split"}
Stake(args) == args[1] + args[2] + args[3]
TenValued == {"10", "J", "Q", "K"}

\* C1: start_round(main, pp, t213) called while the bankroll is None or below
\* main + pp + t213 is rejected and leaves the whole state unchanged (bankroll,
\* hands, dealer, phase, in_hand, stats, side-bet stats, history, shoe).
C1_RejectedStartRoundChangesNothing ==
    [][(/\ last'.op = "start_round"
        /\ (bankroll = NoBankroll \/ bankroll < Stake(last'.args)))
       => UNCHANGED prog]_vars

\* C1 witness: a start_round call was rejected for a short bankroll (a deposit
\* was made, the stake exceeds it, and no round has been dealt)
C1_Witness ==
    /\ last.op = "start_round"
    /\ bankroll # NoBankroll
    /\ bankroll < Stake(last.args)
    /\ hands = <<>>

\* C2: hit, stand, double and split called outside their legal phase/state
\* (no round active, phase not "player", or the current hand done or stood)
\* change nothing.
C2_InvalidActionIsNoOp ==
    [][(/\ last'.op \in ActionOps
        /\ (~in_hand \/ phase # "player" \/ hands[cur + 1].done \/ hands[cur + 1].stood))
       => UNCHANGED prog]_vars

\* the even-money decision is pending: the precondition C3 gives for
\* takeEvenMoney and declineEvenMoney
EvenMoneyPending ==
    /\ in_hand /\ phase = "player"
    /\ is_blackjack(hands[1].cards)
    /\ dealer[1][1] = "A"
    /\ ~even_money_decided
\* the precondition C3 gives for takeInsurance
InsuranceOpen ==
    /\ in_hand /\ phase = "player"
    /\ dealer[1][1] = "A"
    /\ ~peek_done

\* C3: takeInsurance changes state only in the player phase with an Ace upcard
\* and no peek done; takeEvenMoney and declineEvenMoney only while the
\* even-money decision is pending. Any other call leaves bankroll, stats,
\* history, phase and flags unchanged.
C3_InsuranceEvenMoneyNoOp ==
    [][(\/ last'.op = "take_insurance" /\ ~InsuranceOpen
        \/ last'.op \in {"take_even_money", "decline_even_money"} /\ ~EvenMoneyPending)
       => UNCHANGED <<bankroll, stats, history, phase, in_hand, insVars>>]_vars

\* C4: with a bankroll below the current hand's bet, double and split are
\* rejected, and with a bankroll below half the first hand's bet takeInsurance
\* is rejected, with no partial change: bankroll, hands, insurance stake and
\* shoe (indeed the whole state) stay as they were.
C4_InsufficientFundsRejected ==
    [][(\/ last'.op \in {"act_double", "act_split"} /\ bankroll < hands[cur + 1].bet
        \/ last'.op = "take_insurance" /\ 2 * bankroll < hands[1].bet - (hands[1].bet % 2))
       => UNCHANGED prog]_vars

\* C4 witness: a double was refused for lack of funds alone (the hand was
\* otherwise eligible: two cards, total 9..11, not done)
C4_Witness ==
    /\ last.op = "act_double"
    /\ in_hand /\ phase = "player"
    /\ Len(hands[cur + 1].cards) = 2
    /\ hand_value(hands[cur + 1].cards) \in 9..11
    /\ ~hands[cur + 1].done /\ ~hands[cur + 1].doubled
    /\ bankroll < hands[cur + 1].bet

\* the phase changes C5 allows
AllowedPhaseChange ==
    {<<"idle", "player">>, <<"player", "dealer">>, <<"dealer", "settle">>,
     <<"settle", "idle">>, <<"player", "idle">>}

\* C5: over any sequence of engine calls the phase changes only along
\* idle->player, player->dealer, dealer->settle, settle->idle or player->idle,
\* and in_hand is true exactly when the phase is not idle.
C5_PhaseMachine ==
    /\ [](in_hand <=> phase # "idle")
    /\ [][phase' # phase => <<phase, phase'>> \in AllowedPhaseChange]_vars

\* C6: after the initial deal, a player without a natural facing a ten-valued
\* upcard has the dealer peek at once: a dealer blackjack ends the round inside
\* start_round (phase idle, round over), so no action is ever applied in it.
C6_TenUpcardPeek ==
    (/\ last.op = "start_round"
     /\ Len(dealer) = 2 /\ Len(hands) = 1 /\ Len(hands[1].cards) = 2
     /\ ~is_blackjack(hands[1].cards)
     /\ dealer[1][1] \in TenValued
     /\ is_blackjack(dealer))
    => (phase = "idle" /\ ~in_hand)

\* the payouts of the records appended to the history after its first n
RECURSIVE PayoutsAfter(_, _)
PayoutsAfter(hist, n) ==
    IF Len(hist) <= n THEN 0
    ELSE hist[Len(hist)].payout + PayoutsAfter(SubSeq(hist, 1, Len(hist) - 1), n)

\* C7: in every round in which insurance s > 0 was taken and the dealer's two
\* initial cards are a blackjack, the bankroll is credited 3 x s for the
\* insurance by the time the round returns to idle. (Insurance is credited
\* nowhere but in the call that ends the round, line 620: that call must add
\* 3 x s on top of what it pays on the hands. A round abandoned by cashing
\* out is not one that ended.)
C7_InsurancePaid ==
    [][(/\ in_hand /\ ~in_hand'
        /\ last'.op # "init_state"
        /\ insurance > 0
        /\ is_blackjack(SubSeq(dealer, 1, 2)))
       => bankroll' = bankroll + 3 * insurance + PayoutsAfter(history', Len(history))]_vars

\* bet x 2.5 rounded to an integer, whichever way a half is rounded
Rounded3to2(bet) == {p \in 2 * bet .. 3 * bet : 2 * p - 5 * bet \in {-1, 0, 1}}

\* the result and payout C8 gives one hand
C8_Rule(h, dl, splith) ==
    LET pv == hand_value(h.cards)
        dv == hand_value(dl)
    IN  IF pv > 21 THEN [result |-> "lose", payouts |-> {0}]
        ELSE IF Len(h.cards) = 2 /\ pv = 21 /\ ~splith
        THEN [result |-> "win", payouts |-> Rounded3to2(h.bet)]
        ELSE IF dv > 21 THEN [result |-> "win", payouts |-> {2 * h.bet}]
        ELSE IF pv > dv THEN [result |-> "win", payouts |-> {2 * h.bet}]
        ELSE IF pv = dv THEN [result |-> "push", payouts |-> {h.bet}]
        ELSE [result |-> "lose", payouts |-> {0}]

\* C8: settlement books every hand by the rules, in this order: bust -> lose 0;
\* two-card 21 in a round without split -> win bet x 2.5 rounded; dealer bust
\* -> win 2 x bet; higher total -> win 2 x bet; equal -> push, bet back;
\* else lose 0. The bankroll rises by exactly the payouts, and after a split
\* no hand is paid more than 2 x bet.
C8_SettleRules ==
    [][(in_hand /\ phase = "settle" /\ phase' = "idle") =>
        /\ Len(history') = Len(history) + Len(hands)
        /\ \A i \in 1..Len(hands) :
            LET r == history'[Len(history) + i]
                rule == C8_Rule(hands[i], dealer, split_happened)
            IN  /\ r.result = rule.result
                /\ r.payout \in rule.payouts
                /\ r.bet = hands[i].bet
                /\ split_happened => r.payout <= 2 * hands[i].bet
        /\ bankroll' = bankroll + PayoutsAfter(history', Len(history))]_vars

\* C8 witness: settlement has paid an unsplit natural on an odd bet (the
\* rounded 3:2 payout)
C8_Witness ==
    /\ last.op = "phase_settle"
    /\ ~split_happened
    /\ is_blackjack(hands[1].cards)
    /\ hands[1].bet % 2 = 1
    /\ history[Len(history)].result = "win"
    /\ history[Len(history)].payout \in Rounded3to2(hands[1].bet)

\* C9: a natural against an upcard that is neither an Ace nor ten-valued is
\* paid by start_round itself: bankroll + 2.5 x bet (exactly 5 x bet / 2 for an
\* even bet), one history record (win, that payout, net = payout - bet), won
\* and played + 1, phase idle, no round active, dealer left with two cards.
C9_ImmediateNatural ==
    [][(/\ last'.op = "start_round"
        /\ ~(bankroll = NoBankroll \/ bankroll < Stake(last'.args))
        /\ is_blackjack(hands'[1].cards)
        /\ dealer'[1][1] \notin ({"A"} \cup TenValued))
       => LET bet == last'.args[1]
              r == history'[Len(history')]
              sideReturn == (side_stats'.pp.payout_return - side_stats.pp.payout_return)
                            + (side_stats'.t213.payout_return - side_stats.t213.payout_return)
          IN  /\ Len(history') = Len(history) + 1
              /\ SubSeq(history', 1, Len(history)) = history
              /\ r.result = "win"
              /\ r.payout \in Rounded3to2(bet)
              /\ bet % 2 = 0 => 2 * r.payout = 5 * bet
              /\ r.net = r.payout - bet
              /\ bankroll' = bankroll - Stake(last'.args) + sideReturn + r.payout
              /\ stats'.won = stats.won + 1
              /\ stats'.played = stats.played + 1
              /\ stats'.lost = stats.lost /\ stats'.push = stats.push
              /\ phase' = "idle" /\ ~in_hand'
              /\ Len(dealer') = 2]_vars

\* C9 witness: start_round has just paid a natural against a 6
C9_Witness ==
    /\ last.op = "start_round"
    /\ hands # <<>> /\ is_blackjack(hands[1].cards)
    /\ dealer[1][1] = "6"
    /\ phase = "idle" /\ Len(history) = 1

\* a 17 with an ace counted as 11, and a 17 without
Soft17(cards) == hand_value(cards) = 17 /\ HardTotal(cards) = 7
Hard17(cards) == hand_value(cards) = 17 /\ HardTotal(cards) = 17

\* C10 as stated: once dealer play is over, a soft 17 the dealer held was drawn
\* on, and a hard 17 was stood on.
C10_SoftSeventeenDraws ==
    (in_hand /\ phase = "settle") =>
        \A k \in 2..Len(dealer) :
            /\ Soft17(SubSeq(dealer, 1, k)) => k < Len(dealer)
            /\ Hard17(SubSeq(dealer, 1, k)) => k = Len(dealer)

\* C10 amended: the dealer stands on every 17, soft or hard.
C10_StandsOnAll17 ==
    (in_hand /\ phase = "settle") =>
        \A k \in 2..Len(dealer) :
            (Soft17(SubSeq(dealer, 1, k)) \/ Hard17(SubSeq(dealer, 1, k)))
                => k = Len(dealer)

\* C10 witness: dealer play has ended on the soft 17 the dealer was dealt
C10_Witness ==
    /\ in_hand /\ phase = "settle"
    /\ Len(dealer) = 2
    /\ Soft17(dealer)

\* C11: dealer_play draws one card at a time exactly while the dealer's total
\* is below 17 and stands on 17 or more, soft or hard: the dealer phase keeps
\* the first two cards, every total before a drawn card was below 17, and
\* whenever the phase is 'settle' the dealer's total is between 17 and 26.
C11_DealerPlay ==
    /\ []((in_hand /\ phase = "settle")
            => /\ hand_value(dealer) \in 17..26
               /\ \A k \in 2..(Len(dealer) - 1) : hand_value(SubSeq(dealer, 1, k)) < 17)
    /\ [][(in_hand /\ phase = "dealer" /\ phase' = "settle")
            => /\ Len(dealer) = 2
               /\ Len(dealer') >= 2
               /\ SubSeq(dealer', 1, 2) = dealer
               /\ (hand_value(dealer) >= 17 => dealer' = dealer)
               /\ ShoeSize(shoe') = ShoeSize(shoe) - (Len(dealer') - 2)]_vars

\* C11 witness: dealer play has ended after the dealer drew two cards
C11_Witness ==
    /\ in_hand /\ phase = "settle"
    /\ last.op = "phase_dealer"
    /\ Len(dealer) = 4

\* the peek has just revealed a dealer blackjack: by decline_even_money or
\* "Peek & continue" on an Ace, or inside start_round on a ten-valued upcard
\* under a player natural
PeekRevealsBlackjack ==
    \/ /\ last'.op \in {"decline_even_money", "peek"}
       /\ is_blackjack(dealer)
    \/ /\ last'.op = "start_round"
       /\ ~(bankroll = NoBankroll \/ bankroll < Stake(last'.args))
       /\ is_blackjack(hands'[1].cards)
       /\ dealer'[1][1] \in TenValued
       /\ is_blackjack(dealer')

\* C12: when a peek reveals a dealer blackjack, resolve_dealer_blackjack credits
\* 3 x the insurance stake if there is one, then resolves the hand: push
\* (bet back, push + 1, record 'push', payout bet, net 0) if the player holds a
\* two-card 21, else lose (nothing, lost + 1, record 'lose', payout 0, net
\* -bet); the round ends with phase idle and no 'win' is recorded.
C12_ResolveDealerBlackjack ==
    [][PeekRevealsBlackjack =>
        LET fresh == last'.op = "start_round"
            h == hands'[1]
            bj == is_blackjack(h.cards)
            ins == IF fresh THEN 0 ELSE insurance
            base == IF fresh
                    THEN bankroll - Stake(last'.args)
                         + (side_stats'.pp.payout_return - side_stats.pp.payout_return)
                         + (side_stats'.t213.payout_return - side_stats.t213.payout_return)
                    ELSE bankroll
            r == history'[Len(history')]
        IN  /\ Len(history') = Len(history) + 1
            /\ SubSeq(history', 1, Len(history)) = history
            /\ bankroll' = base + 3 * ins + (IF bj THEN h.bet ELSE 0)
            /\ r.result = (IF bj THEN "push" ELSE "lose")
            /\ r.result # "win"
            /\ r.payout = (IF bj THEN h.bet ELSE 0)
            /\ r.net = (IF bj THEN 0 ELSE 0 - h.bet)
            /\ stats'.push = stats.push + (IF bj THEN 1 ELSE 0)
            /\ stats'.lost = stats.lost + (IF bj THEN 0 ELSE 1)
            /\ stats'.won = stats.won
            /\ stats'.played = stats.played + 1
            /\ phase' = "idle" /\ ~in_hand']_vars

\* C12 witness: "Peek & continue" found a dealer blackjack with insurance taken
C12_Witness ==
    /\ last.op = "peek"
    /\ insurance > 0
    /\ is_blackjack(dealer)
    /\ phase = "idle"
    /\ history[Len(history)].result = "lose"

\* C13: electing even money on a natural against a dealer Ace credits exactly
\* 2 x bet at once, appends one record ('win', payout 2 x bet, net bet),
\* adds one to won and played and sets the phase to idle; the dealer draws
\* no card, whatever the hole card is, and the phase engine never runs dealer
\* play or settle for that round.
C13_EvenMoney ==
    [][/\ (/\ last'.op = "take_even_money"
           /\ is_blackjack(hands[1].cards)
           /\ dealer[1][1] = "A")
          => LET bet == hands[1].bet
                 r == history'[Len(history')]
             IN  /\ bankroll' = bankroll + 2 * bet
                 /\ Len(history') = Len(history) + 1
                 /\ SubSeq(history', 1, Len(history)) = history
                 /\ r.result = "win" /\ r.payout = 2 * bet /\ r.net = bet
                 /\ stats'.won = stats.won + 1
                 /\ stats'.played = stats.played + 1
                 /\ stats'.lost = stats.lost /\ stats'.push = stats.push
                 /\ phase' = "idle" /\ ~in_hand'
                 /\ dealer' = dealer /\ shoe' = shoe /\ hands' = hands
       /\ last.op = "take_even_money"
          => last'.op \notin {"phase_dealer", "phase_settle"}]_vars

\* C13 witness: even money was paid although the dealer's hole card made a
\* blackjack
C13_Witness ==
    /\ last.op = "take_even_money"
    /\ ~split_happened
    /\ is_blackjack(hands[1].cards)
    /\ is_blackjack(dealer)
    /\ phase = "idle"

\* the operations C14 speaks of
CardOps == {"act_hit", "act_double", "act_split"}

\* C14: splitting a pair of Aces gives two hands of exactly two cards each (one
\* of the Aces plus one freshly dealt card), both done, stood and flagged
\* split_aces at once; afterwards no hit, double or split adds a card to or
\* otherwise changes either of them.
C14_SplitAces ==
    [][/\ (/\ last'.op = "act_split"
           /\ hands' # hands
           /\ hands[cur + 1].cards[1][1] = "A"
           /\ hands[cur + 1].cards[2][1] = "A")
          => LET i == cur + 1
                 a == hands'[i]
                 b == hands'[i + 1]
             IN  /\ Len(hands') = Len(hands) + 1
                 /\ Len(a.cards) = 2 /\ Len(b.cards) = 2
                 /\ a.cards[1] = hands[i].cards[1]
                 /\ b.cards[1] = hands[i].cards[2]
                 /\ ShoeSize(shoe') = ShoeSize(shoe) - 2
                 /\ a.done /\ a.stood /\ a.split_aces
                 /\ b.done /\ b.stood /\ b.split_aces
       /\ last'.op \in CardOps
          => \A i \in 1..Len(hands) :
                hands[i].split_aces => (Len(hands') >= i /\ hands'[i] = hands[i])]_vars

\* C14 witness: act_hit was called on a hand made by splitting Aces
C14_Witness ==
    /\ last.op = "act_hit"
    /\ hands # <<>>
    /\ hands[cur + 1].split_aces
    /\ Len(hands) = 2
    /\ Len(hands[1].cards) = 2 /\ Len(hands[2].cards) = 2

\* the conditions C15 lists for a double to take effect
DoubleTakesEffect(h, b) ==
    /\ Len(h.cards) = 2
    /\ hand_value(h.cards) \in 9..11
    /\ ~h.doubled /\ ~h.stood /\ ~h.done /\ ~h.split_aces
    /\ b >= h.bet

\* a hand that can still be played
Playable(h) == ~h.done /\ ~h.stood /\ hand_value(h.cards) <= 21

\* C15: double takes effect only on a two-card hand totalling 9..11 that is not
\* doubled, stood, done or split aces, with bankroll >= bet. Then the bankroll
\* falls by the previous bet, the bet is twice the previous one, the hand gets
\* exactly one card and is marked done whatever its total, and play moves to
\* the next playable hand or to the dealer phase; no later action changes a
\* doubled hand.
C15_Double ==
    [][/\ last'.op = "act_double"
          => LET i == cur + 1
                 h == hands[i]
             IN  IF DoubleTakesEffect(h, bankroll)
                 THEN /\ bankroll' = bankroll - h.bet
                      /\ Len(hands') = Len(hands)
                      /\ hands'[i].bet = 2 * h.bet
                      /\ Len(hands'[i].cards) = 3
                      /\ SubSeq(hands'[i].cards, 1, 2) = h.cards
                      /\ ShoeSize(shoe') = ShoeSize(shoe) - 1
                      /\ hands'[i].done /\ hands'[i].doubled
                      /\ \A k \in 1..Len(hands) : k # i => hands'[k] = hands[k]
                      /\ IF \E k \in 1..Len(hands') : Playable(hands'[k])
                         THEN phase' = "player" /\ Playable(hands'[cur' + 1])
                         ELSE phase' = "dealer"
                 ELSE UNCHANGED prog
       /\ last'.op \in ActionOps
          => \A i \in 1..Len(hands) :
                hands[i].doubled => (Len(hands') >= i /\ hands'[i] = hands[i])]_vars

\* every total a hand can be given by counting each Ace as 1 or as 11
RECURSIVE AceValuations(_)
AceValuations(cards) ==
    IF cards = <<>> THEN {0}
    ELSE LET r == Head(cards)[1]
             vs == IF r = "A" THEN {1, 11}
                   ELSE IF r \in TenValued THEN {10}
                   ELSE {n \in 2..9 : RANKS[n] = r}
         IN  {v + t : v \in vs, t \in AceValuations(Tail(cards))}

SetMax(S) == CHOOSE x \in S : \A y \in S : y <= x
SetMin(S) == CHOOSE x \in S : \A y \in S : x <= y

\* C16: for every hand, hand_value returns the largest total not above 21 that
\* counting each Ace as 1 or 11 can give, when there is one, and otherwise the
\* smallest total there is (every Ace counted as 1, which is then above 21).
C16_HandTotal ==
    last.op = "hand_value" =>
        LET T == AceValuations(dealer)
            ok == {t \in T : t <= 21}
            best == IF ok # {} THEN SetMax(ok) ELSE SetMin(T)
        IN  /\ last.args[1] = best
            /\ hand_value(dealer) = best
            /\ ok = {} => best > 21

\* C16 witness: a hand that holds an Ace and is bust even with every Ace
\* counted as 1
C16_Witness ==
    /\ last.op = "hand_value"
    /\ \E i \in 1..Len(dealer) : dealer[i][1] = "A"
    /\ last.args[1] > 21

\* C17: deal() never fails and always returns a card. The shoe is rebuilt only
\* by a deal() that finds it empty; a freshly built shoe holds decks x 52
\* cards, every (rank, suit) exactly decks times, so between two rebuilds
\* exactly decks copies of each of the 52 cards are dealt; the number of
\* remaining cards stays between 0 and decks x 52.
C17_Shoe ==
    /\ [](/\ ShoeSize(shoe) \in 0..(shoe.decks * 52)
          /\ \A c \in Deck : Copies(shoe, c) \in 0..shoe.decks
          /\ \E c \in Deck : Copies(Refilled(shoe), c) > 0)
    /\ [][last'.op = "deal" =>
            LET c == last'.args[1]
            IN  /\ c \in Deck
                /\ shoe'.decks = shoe.decks
                /\ IF \A d \in Deck : Copies(shoe, d) = 0
                   THEN /\ last'.args[2] = 0
                        /\ \A d \in Deck :
                              Copies(shoe', d) = IF d = c THEN shoe.decks - 1 ELSE shoe.decks
                        /\ ShoeSize(shoe') = shoe.decks * 52 - 1
                   ELSE /\ Copies(shoe, c) > 0
                        /\ \A d \in Deck :
                              Copies(shoe', d) = Copies(shoe, d) - (IF d = c THEN 1 ELSE 0)
                        /\ ShoeSize(shoe') = ShoeSize(shoe) - 1]_vars

\* C17 witness: a deal() found the shoe empty, rebuilt it and returned a card
C17_Witness ==
    /\ last.op = "deal"
    /\ last.args[2] = 0
    /\ ShoeSize(shoe) = shoe.decks * 52 - 1
    /\ Copies(shoe, last.args[1]) = shoe.decks - 1

\* an accepted start_round has just dealt and evaluated the side bets
SideBetsEvaluated ==
    /\ last'.op = "start_round"
    /\ ~(bankroll = NoBankroll \/ bankroll < Stake(last'.args))

Black == {"S", "C"}
Red == {"H", "D"}

\* the Perfect Pairs result C18 gives two cards, and the return per unit staked
C18_Kind(c1, c2) ==
    IF c1[1] # c2[1] THEN "none"
    ELSE IF c1[2] = c2[2] THEN "perfect"
    ELSE IF {c1[2], c2[2]} \subseteq Black \/ {c1[2], c2[2]} \subseteq Red THEN "colored"
    ELSE "mixed"
C18_Factor == [perfect |-> 26, colored |-> 13, mixed |-> 7, none |-> 0]

\* C18: Perfect Pairs on the player's first two cards: different ranks -> no
\* result (10 and K are no pair); same rank and suit -> perfect; same rank and
\* colour, other suit -> colored; same rank, other colour -> mixed. A stake
\* s > 0 credits the bankroll and the Perfect Pairs return by exactly 26 s,
\* 13 s or 7 s and adds one to that category's wins; no pair credits nothing.
C18_PerfectPairs ==
    [][SideBetsEvaluated =>
        LET h == hands'[1]
            s == last'.args[2]
            k == C18_Kind(h.cards[1], h.cards[2])
            gain == s * C18_Factor[k]
            other == side_stats'.t213.payout_return - side_stats.t213.payout_return
        IN  /\ h.pp_bet = s
            /\ side_stats'.pp.payout_return = side_stats.pp.payout_return + gain
            /\ \A cat \in {"perfect", "colored", "mixed"} :
                 side_stats'.pp.wins[cat] = side_stats.pp.wins[cat]
                      + (IF s > 0 /\ cat = k THEN 1 ELSE 0)
            /\ bankroll' = bankroll - Stake(last'.args) + gain + other
                           + PayoutsAfter(history', Len(history))]_vars

\* C18 witness: a red pair of Kings of different suits was paid as colored
C18_Witness ==
    /\ last.op = "start_round"
    /\ hands # <<>>
    /\ hands[1].cards = <<<<"K","H">>, <<"K","D">>>>
    /\ hands[1].pp_bet > 0
    /\ side_stats.pp.wins.colored = 1
    /\ side_stats.pp.payout_return = 13 * hands[1].pp_bet

\* rank numbers 2..13 for 2..K; the Ace is 14 (high) or 1 (low)
RankNumber == [r \in RankSet \ {"A"} |-> CHOOSE n \in 2..13 : RANKS[n] = r]
\* three different numbers in a row
InARow(ns) == Cardinality(ns) = 3 /\ \E n \in ns : ns = {n, n + 1, n + 2}
\* three ranks in a row under one of the two Ace readings
C19_Straight(trio) ==
    \E ace \in {1, 14} :
        InARow({IF trio[i][1] = "A" THEN ace ELSE RankNumber[trio[i][1]] : i \in 1..3})
C19_Flush(trio) == trio[1][2] = trio[2][2] /\ trio[2][2] = trio[3][2]
C19_Trips(trio) == trio[1][1] = trio[2][1] /\ trio[2][1] = trio[3][1]
\* the 21+3 result C19 gives three cards, and the return per unit staked
C19_Kind(trio) ==
    IF C19_Flush(trio) /\ C19_Straight(trio) THEN "straight_flush"
    ELSE IF C19_Trips(trio) THEN "three_kind"
    ELSE IF C19_Straight(trio) THEN "straight"
    ELSE IF C19_Flush(trio) THEN "flush"
    ELSE "none"
C19_Factor == [straight_flush |-> 41, three_kind |-> 31, straight |-> 11, flush |-> 6,
               none |-> 0]

\* C19: 21+3 on the player's two cards and the upcard, in priority order:
\* flush and straight -> straight_flush (41 x stake); three equal ranks ->
\* three_kind (31 x), suited or not; straight (11 x); flush (6 x); else
\* nothing. A straight is three consecutive ranks with the Ace as 14 or as 1:
\* Q-K-A and A-2-3 are straights, K-A-2 is not.
C19_TwentyOnePlusThree ==
    [][SideBetsEvaluated =>
        LET h == hands'[1]
            s == last'.args[3]
            trio == <<h.cards[1], h.cards[2], dealer'[1]>>
            k == C19_Kind(trio)
            gain == s * C19_Factor[k]
            other == side_stats'.pp.payout_return - side_stats.pp.payout_return
        IN  /\ h.t213_bet = s
            /\ side_stats'.t213.payout_return = side_stats.t213.payout_return + gain
            /\ \A cat \in {"straight_flush", "three_kind", "straight", "flush"} :
                 side_stats'.t213.wins[cat] = side_stats.t213.wins[cat]
                      + (IF s > 0 /\ cat = k THEN 1 ELSE 0)
            /\ bankroll' = bankroll - Stake(last'.args) + gain + other
                           + PayoutsAfter(history', Len(history))
            /\ ({trio[i][1] : i \in 1..3} = {"K", "A", "2"} => k \notin {"straight", "straight_flush"})
            /\ ({trio[i][1] : i \in 1..3} \in {{"Q", "K", "A"}, {"A", "2", "3"}}
                    => k \in {"straight", "straight_flush"})]_vars

\* C19 witness: three times the same card was paid as three of a kind, and
\* not as a flush
C19_Witness ==
    /\ last.op = "start_round"
    /\ hands # <<>>
    /\ hands[1].cards[1] = hands[1].cards[2]
    /\ hands[1].cards[1] = dealer[1]
    /\ hands[1].t213_bet > 0
    /\ side_stats.t213.wins.three_kind = 1
    /\ side_stats.t213.wins.flush = 0
    /\ side_stats.t213.payout_return = 31 * hands[1].t213_bet

\* C20: a round has between 1 and 4 player hands in every reachable state:
\* a split takes effect only when the round has fewer than 4 hands, every
\* split that takes effect adds exactly one hand, and nothing else changes
\* the number of hands of a round.
C20_HandCount ==
    /\ [](hands # <<>> => Len(hands) \in 1..4)
    /\ [][/\ (last'.op = "act_split" /\ hands' # hands)
             => (Len(hands) < 4 /\ Len(hands') = Len(hands) + 1)
          /\ (hands # <<>> /\ last'.op # "start_round" /\ Len(hands') # Len(hands))
             => last'.op = "act_split"]_vars

\* C20 witness: act_split was called on a pair with four hands on the table
\* and enough bankroll, and was refused
C20_Witness ==
    /\ last.op = "act_split"
    /\ in_hand /\ phase = "player"
    /\ Len(hands) = 4
    /\ Len(hands[cur + 1].cards) = 2
    /\ hands[cur + 1].cards[1][1] = hands[cur + 1].cards[2][1]
    /\ ~hands[cur + 1].done /\ ~hands[cur + 1].stood
    /\ bankroll >= hands[cur + 1].bet

\* an act_split that took effect in the step
SplitTookEffect == last'.op = "act_split" /\ hands' # hands

\* C21: an effective split takes exactly the split hand's bet from the
\* bankroll, inserts one new hand with the same bet directly after it, leaves
\* each of the two hands with one of the original cards plus one freshly dealt
\* card and every other hand as it was; the new hand's Perfect Pairs and 21+3
\* stakes are 0, so only the hand at index 0 ever carries side bets, and the
\* split leaves the side-bet statistics alone.
C21_SplitFrame ==
    /\ [](\A i \in 2..Len(hands) : hands[i].pp_bet = 0 /\ hands[i].t213_bet = 0)
    /\ [][SplitTookEffect =>
            LET h == hands[cur + 1]
                a == hands'[cur + 1]
                b == hands'[cur + 2]
            IN  /\ bankroll' = bankroll - h.bet
                /\ Len(hands') = Len(hands) + 1
                /\ a.bet = h.bet /\ b.bet = h.bet
                /\ Len(a.cards) = 2 /\ a.cards[1] = h.cards[1]
                /\ Len(b.cards) = 2 /\ b.cards[1] = h.cards[2]
                /\ ShoeSize(shoe') = ShoeSize(shoe) - 2
                /\ Copies(shoe', a.cards[2]) < Copies(shoe, a.cards[2])
                /\ Copies(shoe', b.cards[2]) < Copies(shoe, b.cards[2])
                /\ a.pp_bet = h.pp_bet /\ a.t213_bet = h.t213_bet
                /\ b.pp_bet = 0 /\ b.t213_bet = 0
                /\ \A i \in 1..cur : hands'[i] = hands[i]
                /\ \A i \in (cur + 2)..Len(hands) : hands'[i + 1] = hands[i]
                /\ side_stats' = side_stats
                /\ stats' = stats /\ history' = history /\ dealer' = dealer
         ]_vars

\* a split of the middle hand of three, after a round that paid a side bet
C21_Witness ==
    /\ last.op = "act_split"
    /\ Len(hands) = 4
    /\ hands[1].done /\ hands[4].bet = hands[2].bet
    /\ \E i \in 2..3 : hands[i].cards[1][1] = "8" /\ Len(hands[i].cards) = 2
    /\ hands[1].pp_bet > 0
    /\ side_stats.pp.wins.perfect = 1

\* an act_hit that took effect in the step
HitTookEffect == last'.op = "act_hit" /\ hands' # hands
\* the 1-based indices of the hands of hs that can still be played
PlayableIn(hs) == {i \in 1..Len(hs) : Playable(hs[i])}

\* C22: an effective hit deals exactly one card to the current hand and changes
\* no bet and not the bankroll. A new total above 21 marks the hand done and
\* not stood, a total of exactly 21 done and stood, and in both cases play
\* moves to the next playable hand or to the dealer phase. Below 21 the hand
\* stays not done and the current index and the phase 'player' stay.
C22_Hit ==
    [][HitTookEffect =>
        LET h == hands[cur + 1]
            g == hands'[cur + 1]
            v == hand_value(g.cards)
        IN  /\ Len(g.cards) = Len(h.cards) + 1
            /\ SubSeq(g.cards, 1, Len(h.cards)) = h.cards
            /\ ShoeSize(shoe') = ShoeSize(shoe) - 1
            /\ Len(hands') = Len(hands)
            /\ \A i \in 1..Len(hands) :
                  /\ hands'[i].bet = hands[i].bet
                  /\ i # cur + 1 => hands'[i] = hands[i]
            /\ bankroll' = bankroll /\ insurance' = insurance /\ dealer' = dealer
            /\ v > 21 => g.done /\ ~g.stood
            /\ v = 21 => g.done /\ g.stood
            /\ v >= 21 =>
                  IF PlayableIn(hands') # {}
                  THEN phase' = "player" /\ cur' + 1 \in PlayableIn(hands')
                  ELSE phase' = "dealer"
            /\ v < 21 =>
                  ~g.done /\ cur' = cur /\ phase = "player" /\ phase' = "player"
    ]_vars

\* a hit that brought the first of two split hands to exactly 21, with the
\* second hand now the current one
C22_Witness ==
    /\ last.op = "act_hit"
    /\ Len(hands) = 2 /\ cur = 1 /\ phase = "player"
    /\ Len(hands[1].cards) = 3
    /\ hands[1].done
    /\ hand_value(hands[1].cards) = 21
    /\ hands[1].stood

\* a step that ends with the advance of next_or_dealer: a stand, an effective
\* double or split, or a hit that finished the hand
Advanced ==
    \/ last'.op = "act_stand"
    \/ last'.op \in {"act_double", "act_split"} /\ hands' # hands
    \/ HitTookEffect /\ hand_value(hands'[cur + 1].cards) >= 21
SetLeast(S) == CHOOSE i \in S : \A j \in S : i <= j

\* C23: the advance after stand, double, split and a finishing hit selects the
\* lowest-index hand that is not done, not stood and totals at most 21, keeping
\* phase 'player'; the phase becomes 'dealer' exactly when there is no such
\* hand; the advance itself changes nothing but the current index and the
\* phase (after a stand, the rest of the state is the stood hand's two flags).
C23_NextOrDealer ==
    [][Advanced =>
        /\ (phase' = "dealer") <=> (PlayableIn(hands') = {})
        /\ PlayableIn(hands') # {} =>
              phase' = "player" /\ cur' + 1 = SetLeast(PlayableIn(hands'))
        /\ PlayableIn(hands') = {} => cur' = cur
        /\ last'.op = "act_stand" =>
              /\ hands' = [hands EXCEPT ![cur + 1].stood = TRUE, ![cur + 1].done = TRUE]
              /\ UNCHANGED <<shoeVars, ledgerVars, in_hand, dealer, split_happened, insVars>>
    ]_vars

\* a split that left two playable hands, the lower one current
C23_Witness ==
    /\ last.op = "act_split"
    /\ Len(hands) = 2 /\ PlayableIn(hands) = {1, 2}
    /\ cur = 0 /\ phase = "player"

\* the index, after the step, of the hand that is at 1-based index i before it
\* (an effective split inserts the new hand at cur + 2)
IndexAfter(i) == IF SplitTookEffect /\ i > cur + 1 THEN i + 1 ELSE i

\* C24: once a hand is done it stays done, and its cards and its bet do not
\* change again until the round is replaced: no hit, stand, double, split,
\* insurance or even-money call, and no dealer play or settlement, adds a card
\* to a done hand or alters its bet.
C24_DoneIsFrozen ==
    [][last'.op \notin {"start_round", "init_state"} =>
        \A i \in 1..Len(hands) :
            hands[i].done =>
                /\ IndexAfter(i) <= Len(hands')
                /\ hands'[IndexAfter(i)].done
                /\ hands'[IndexAfter(i)].cards = hands[i].cards
                /\ hands'[IndexAfter(i)].bet = hands[i].bet
    ]_vars

\* act_hit called on a doubled hand, which is done but not stood
C24_Witness ==
    /\ last.op = "act_hit" /\ last.direct
    /\ phase = "dealer"
    /\ LET h == hands[cur + 1]
       IN  h.done /\ ~h.stood /\ h.doubled /\ Len(h.cards) = 3

\* the operations of a round after its start_round
RoundOps ==
    {"take_even_money", "decline_even_money", "take_insurance", "peek",
     "act_hit", "act_stand", "act_double", "act_split", "phase_dealer", "phase_settle"}

\* C25: side bets are evaluated once per round, inside start_round. An accepted
\* start_round counts each staked side bet once; from then until the next
\* start_round, hit, stand, double, split, insurance, even money, peek, dealer
\* play and settlement leave the side-bet statistics unchanged, and whatever
\* they credit to the bankroll is the payout of the hands they resolved, plus
\* the insurance payout where one is made: never a side-bet payout.
C25_SideBetsOnce ==
    /\ [][last'.op \in RoundOps =>
            /\ side_stats' = side_stats
            /\ bankroll' > bankroll =>
                  bankroll' - bankroll \in
                      {PayoutsAfter(history', Len(history)),
                       PayoutsAfter(history', Len(history)) + 3 * insurance}
       ]_vars
    /\ [][last'.op = "start_round" /\ shoe' # shoe =>
            /\ side_stats'.pp.bets = side_stats.pp.bets + (IF last'.args[2] > 0 THEN 1 ELSE 0)
            /\ side_stats'.pp.stake = side_stats.pp.stake + last'.args[2]
            /\ side_stats'.t213.bets = side_stats.t213.bets + (IF last'.args[3] > 0 THEN 1 ELSE 0)
            /\ side_stats'.t213.stake = side_stats.t213.stake + last'.args[3]
       ]_vars

\* a round whose Perfect Pairs bet was paid at the deal, split and settled with
\* a credit to the bankroll
C25_Witness ==
    /\ last.op = "phase_settle"
    /\ side_stats.pp.wins.perfect = 1 /\ side_stats.pp.bets = 1
    /\ Len(hands) = 2 /\ hands[1].pp_bet > 0
    /\ PayoutsAfter(history, 0) > 0

\* hist1 is an initial part of hist2
IsPrefix(hist1, hist2) ==
    Len(hist1) <= Len(hist2) /\ SubSeq(hist2, 1, Len(hist1)) = hist1

\* C26: the history is append-only between cash-outs and agrees with the result
\* counters: each resolution appends one record and increments one of won,
\* lost and push, so the number of records equals won + lost + push in every
\* reachable state, and every record has net = payout - bet.
C26_History ==
    /\ [](Len(history) = stats.won + stats.lost + stats.push)
    /\ [](\A i \in 1..Len(history) : history[i].net = history[i].payout - history[i].bet)
    /\ [][last'.op # "init_state" =>
            /\ IsPrefix(history, history')
            /\ stats'.won >= stats.won /\ stats'.lost >= stats.lost
            /\ stats'.push >= stats.push
            /\ Len(history') - Len(history) = 1 =>
                  (stats'.won - stats.won) + (stats'.lost - stats.lost)
                      + (stats'.push - stats.push) = 1
       ]_vars

\* a settled split round with one hand won and the other pushed
C26_Witness ==
    /\ last.op = "phase_settle"
    /\ Len(history) = 2
    /\ stats.won = 1 /\ stats.push = 1
    /\ history[1].result # history[2].result

\* the main bet the round's start_round was called with: it is hands[0].bet
\* until act_double doubles that bet (act_split copies it, nothing else writes it)
MainBet == IF hands[1].doubled THEN hands[1].bet \div 2 ELSE hands[1].bet

\* C27: in every reachable state the insurance stake is at most
\* floor(mainBet / 2) for the mainBet given to the start_round that began the
\* round, whatever player actions (split and double included) came before
\* take_insurance; and insurance is taken at most once per round.
C27_InsuranceCap ==
    /\ [](hands # <<>> => insurance <= MainBet \div 2)
    /\ [][last'.op = "take_insurance" /\ insurance > 0 =>
            insurance' = insurance /\ bankroll' = bankroll]_vars

\* a step in which a round returns to idle: an accepted start_round that ends
\* at once, or a later step of the round other than a cash out
RoundEnds ==
    /\ last'.op # "init_state"
    /\ ~in_hand'
    /\ in_hand \/ (last'.op = "start_round" /\ shoe' # shoe)

\* C28: every hand of a round is resolved exactly once: no record is appended
\* while the round goes on, and when the round returns to idle (settlement, a
\* dealer blackjack found by a peek, a natural paid at once, even money) the
\* records appended are as many as the hands the round holds.
C28_EveryHandResolvedOnce ==
    /\ [][in_hand /\ in_hand' /\ last'.op \in RoundOps => history' = history]_vars
    /\ [][RoundEnds => Len(history') - Len(history) = Len(hands')]_vars

\* C29: once a deposit was made the bankroll is never negative, and no hand's
\* bet, side-bet stake or the insurance stake is ever negative, after any
\* sequence of calls: every deduction is guarded by bankroll >= amount.
C29_NonNegative ==
    /\ bankroll = NoBankroll \/ bankroll >= 0
    /\ insurance >= 0
    /\ \A i \in 1..Len(hands) :
          hands[i].bet >= 0 /\ hands[i].pp_bet >= 0 /\ hands[i].t213_bet >= 0

\* 'Take Insurance' pressed with a bankroll below half the bet: the call is
\* refused and the bankroll stays as it is
C29_Witness ==
    /\ last.op = "take_insurance"
    /\ in_hand /\ insurance = 0
    /\ 0 <= bankroll /\ bankroll < hands[1].bet \div 2

\* C30: whenever a round is active in phase 'player', cur is a valid index, the
\* current hand is not done, not stood and totals at most 21, and every hand
\* with a smaller index is done; cur never decreases within a round.
C30_CurrentHand ==
    /\ [](in_hand /\ phase = "player" =>
            /\ cur + 1 \in 1..Len(hands)
            /\ Playable(hands[cur + 1])
            /\ \A i \in 1..cur : hands[i].done)
    /\ [][in_hand /\ in_hand' /\ last'.op \in RoundOps => cur' >= cur]_vars

\* the third of four hands is the current one, the two before it played
C30_Witness ==
    /\ in_hand /\ phase = "player"
    /\ Len(hands) = 4 /\ cur = 2
    /\ hands[1].done /\ hands[2].done
    /\ Playable(hands[3]) /\ Playable(hands[4])

\* C31: every started round returns to idle when the player keeps pressing
\* enabled buttons and the dealer and settle phases are advanced. An active
\* round is never stuck: its phase is player, dealer or settle, and in the
\* player phase either the even-money pair or Stand is enabled, and a stand
\* finishes the current hand. Effective actions cannot go on for ever: a hit
\* raises the hand's minimum total by at least 1 and finishes the hand at 21 or
\* more, a round never holds more than split_limit hands, and a double is
\* taken only by a hand not doubled before. The dealer's play ends at 17 or
\* more and hands over to settlement.
C31_RoundTerminates ==
    /\ in_hand ~> ~in_hand
    /\ [](in_hand =>
            /\ phase \in {"player", "dealer", "settle"}
            /\ phase = "player" => EvenMoneyShown \/ (ActionsShown /\ can_stand))
    /\ [](Len(hands) <= split_limit)
    /\ [][last'.op = "act_stand" =>
            ~hands[cur + 1].done /\ hands'[cur + 1].done /\ hands'[cur + 1].stood]_vars
    /\ [][HitTookEffect =>
            /\ HardTotal(hands'[cur + 1].cards) >= HardTotal(hands[cur + 1].cards) + 1
            /\ HardTotal(hands[cur + 1].cards) < 21
            /\ hand_value(hands'[cur + 1].cards) >= 21 => hands'[cur + 1].done]_vars
    /\ [][last'.op = "act_double" /\ hands' # hands =>
            ~hands[cur + 1].doubled /\ hands'[cur + 1].doubled /\ hands'[cur + 1].done]_vars
    /\ [][last'.op = "phase_dealer" =>
            hand_value(dealer') >= 17 /\ phase' = "settle"]_vars

\* a round of four hands, one of them hit until it busted on its fifth card and
\* one doubled, settled after the dealer drew to four cards
C31_Witness ==
    /\ ~in_hand /\ phase = "idle" /\ last.op = "phase_settle"
    /\ Len(hands) = 4
    /\ \E i \in 1..4 : Len(hands[i].cards) = 5 /\ hand_value(hands[i].cards) > 21
    /\ \E i \in 1..4 : hands[i].doubled
    /\ Len(dealer) = 4

====
